---- MODULE Spec2Model ----
(***************************************************************************)
(* The fake-data seeder server/scripts/seed_fake_data.py as a state        *)
(* machine.  One instance of the script is a process p; each step is one   *)
(* statement the script executes on its sqlite3 connection.                *)
(*                                                                         *)
(* Database semantics the script relies on (Python sqlite3, default        *)
(* isolation level): the first INSERT/UPDATE executed outside a            *)
(* transaction implicitly begins one; a write transaction holds the        *)
(* database's single write lock until COMMIT or ROLLBACK; "with conn:"     *)
(* commits when its block ends normally and rolls back when it raises;     *)
(* other connections see committed data only.                              *)
(*                                                                         *)
(* Rows are projected on the columns the seeder computes: users(seq, id),  *)
(* accounts(account, user_id), posts(seq, id, created_at) and              *)
(* post_votes(post_id, user_id, value, created_at).                        *)
(***************************************************************************)
EXTENDS Integers, Sequences, FiniteSets, TLC

\* ---------------------------------------------------------------- bounds
MaxUsers == 2      \* largest --users drawn
MaxPosts == 2      \* largest --posts drawn
MaxLikes == 3      \* largest --likes-per-post drawn
MaxEvery == 2      \* largest --liked-every drawn
MaxPre   == 2      \* largest counter value / seq in the database before the first run
MaxRuns  == 2      \* runs of the seeder in a sequence of sequential runs
NumStamps == 2     \* distinct created_at timestamps the random backdating can produce

Procs == {1, 2}
Names == {"user", "post"}
DbPath == "server/storage/dev.db"
Paths == {DbPath, "missing.db"}
Stamps == 1..NumStamps

Max(a, b) == IF a >= b THEN a ELSE b
Min(a, b) == IF a <= b THEN a ELSE b

\* f"u_{seq}" and f"p_{seq}"
UserId(seq) == <<"u_", seq>>
PostId(seq) == <<"p_", seq>>

\* ------------------------------------------------------- SQL statements
InsertOrReplaceCounter(c, name, v) ==
    [n \in DOMAIN c \cup {name} |-> IF n = name THEN v ELSE c[n]]
\* INSERT OR IGNORE INTO counters(name, value) VALUES(name, v)
InsertOrIgnoreCounter(c, name, v) ==
    IF name \in DOMAIN c
    THEN c
    ELSE [n \in DOMAIN c \cup {name} |-> IF n = name THEN v ELSE c[n]]

UpdateRaiseLower(c, name, m) ==
    [n \in DOMAIN c |-> IF n = name THEN m ELSE c[n]]
\* UPDATE counters SET value = CASE WHEN value < m THEN m ELSE value END WHERE name = name
UpdateRaise(c, name, m) ==
    [n \in DOMAIN c |-> IF n = name THEN (IF c[n] < m THEN m ELSE c[n]) ELSE c[n]]

UpdateIncrementNone(c, name) == c
\* UPDATE counters SET value = value + 1 WHERE name = name
UpdateIncrement(c, name) ==
    [n \in DOMAIN c |-> IF n = name THEN c[n] + 1 ELSE c[n]]

\* SELECT value FROM counters WHERE name = name  (fetchone()[0])
SelectValue(c, name) == c[name]

\* The two statements of ensure_counter_at_least, in order.
ensure_counter_at_least(c, name, min_value) ==
    UpdateRaise(InsertOrIgnoreCounter(c, name, min_value), name, min_value)

\* SELECT COALESCE(MAX(seq), 0) FROM table
max_seq(rows) ==
    IF rows = {}
    THEN 0
    ELSE CHOOSE s \in {r.seq : r \in rows} : \A r \in rows : r.seq <= s

\* ------------------------------------------------------ seed_posts parts
LikedEveryUnclamped(liked_every) == liked_every
\* liked_every = max(1, liked_every)
LikedEvery(liked_every) == Max(1, liked_every)

LikedIndicesShifted(count, step) ==
    {k * step + 1 : k \in 0..Max(0, count)} \cap (0..(count - 1))
\* set(range(0, count, step)), step >= 1
LikedIndices(count, step) ==
    {k * step : k \in 0..Max(0, count)} \cap (0..(count - 1))

\* like_user_count = min(likes_per_post, len(user_ids))
LikeUserCount(likes_per_post, user_ids) == Min(likes_per_post, Len(user_ids))

\* idx in liked_indices and like_user_count > 0   (the negation of the `continue` test)
PostIsLiked(idx, count, liked_every, like_user_count) ==
    /\ idx \in LikedIndices(count, LikedEvery(liked_every))
    /\ like_user_count > 0

\* created_at of a like row: the post's created_at, from the posts list
VoteCreatedAt(post) == post[2]

VoteRow(post, user_id) ==
    [post_id |-> post[1], user_id |-> user_id, value |-> 1, created_at |-> VoteCreatedAt(post)]

\* ------------------------------------------------------------ main parts
PathExistsAlways(path, fs) == TRUE
\* os.path.exists(args.db)
PathExists(path, fs) == path \in fs

AfterRollbackKeeps(committed, working) == working
\* The database after "with conn:" rolls back: the committed data, untouched.
AfterRollback(committed, working) == committed

\* args.likes_per_post > len(user_ids)
Warn(likes_per_post, user_ids) == likes_per_post > Len(user_ids)

CanWriteUnlocked(p, w) == TRUE
\* SQLite grants the write lock to one connection at a time.
CanWrite(p, w) == w = 0 \/ w = p

\* ---------------------------------------------------------------- state
VARIABLES
    files,    \* paths that exist on disk
    db,       \* the committed contents of the database file
    writer,   \* the process holding the write lock, 0 when free
    runs,     \* runs of the script started so far
    pc,       \* per process: the statement it executes next
    args,     \* per process: the parsed command line
    conn,     \* per process: "none", "open" or "closed"
    intxn,    \* per process: the connection is inside a transaction
    work,     \* per process: the database as its open transaction sees it
    loc,      \* per process: local variables of main, seed_users, seed_posts
    out,      \* per process: what was printed
    ret,      \* per process: how main ended ("none" while running)
    pre,      \* per process: db and files when the run started (history)
    issued,   \* per process: values next_counter returned in this run (history)
    past      \* values next_counter returned in finished runs (history)

vars == <<files, db, writer, runs, pc, args, conn, intxn, work, loc, out, ret, pre, issued, past>>

EmptyCounters == [n \in {} |-> 0]
NoDb == [counters |-> EmptyCounters, users |-> {}, accounts |-> {}, posts |-> {}, votes |-> {}]
NoArgs == [db |-> DbPath, users |-> 0, posts |-> 0, likes_per_post |-> 0, liked_every |-> 0]
NoLoc == [m |-> 0, i |-> 0, seq |-> 0, created_at |-> 0, user_ids |-> <<>>, posts |-> <<>>,
          like_user_count |-> 0, liked_posts |-> 0, idx |-> 0, k |-> 0, run_id |-> 0]
NoOut == [stderr |-> "", summary |-> <<>>, warning |-> <<>>]
NoIssued == [n \in Names |-> <<>>]

\* Databases the script can meet: counters written by the application (each absent,
\* or at a value below, at or above its table's largest seq) and existing rows.
PreVals == {0, MaxPre}
InitDbs ==
    { [counters |-> c,
       users    |-> {[seq |-> s, id |-> UserId(s)] : s \in 1..ku},
       accounts |-> {[account |-> <<0, s>>, user_id |-> UserId(s)] : s \in 1..ku},
       posts    |-> {[seq |-> s, id |-> PostId(s), created_at |-> 1] : s \in 1..kp},
       votes    |-> {}] :
      c \in UNION {[S -> PreVals] : S \in SUBSET Names}, ku \in PreVals, kp \in PreVals }

\* Command lines: the full range for one run, a narrow one for several runs.
ArgsAll ==
    [db : Paths, users : (-1)..MaxUsers, posts : (-1)..MaxPosts,
     likes_per_post : {-1, 0, 1, MaxLikes}, liked_every : 0..MaxEvery]
ArgsFew ==
    [db : {DbPath}, users : 0..1, posts : 0..1, likes_per_post : {1}, liked_every : {1}]

Init ==
    /\ files = {DbPath}
    /\ db \in InitDbs
    /\ writer = 0
    /\ runs = 0
    /\ pc = [p \in Procs |-> "idle"]
    /\ args = [p \in Procs |-> NoArgs]
    /\ conn = [p \in Procs |-> "none"]
    /\ intxn = [p \in Procs |-> FALSE]
    /\ work = [p \in Procs |-> NoDb]
    /\ loc = [p \in Procs |-> NoLoc]
    /\ out = [p \in Procs |-> NoOut]
    /\ ret = [p \in Procs |-> "none"]
    /\ pre = [p \in Procs |-> [db |-> NoDb, files |-> {}]]
    /\ issued = [p \in Procs |-> NoIssued]
    /\ past = {}

\* The database as p's connection sees it.
View(p) == IF intxn[p] THEN work[p] ELSE db

Goto(p, l) == pc' = [pc EXCEPT ![p] = l]

\* conn.execute of an INSERT/UPDATE leaving the connection's view at d: begins the
\* transaction when none is open, which takes the write lock.
ExecWrite(p, d) ==
    /\ CanWrite(p, writer)
    /\ writer' = p
    /\ intxn' = [intxn EXCEPT ![p] = TRUE]
    /\ work' = [work EXCEPT ![p] = d]

\* An exception leaves the "with conn:" block: rollback, then finally: conn.close().
Raise(p, err) ==
    /\ db' = AfterRollback(db, View(p))
    /\ writer' = IF writer = p THEN 0 ELSE writer
    /\ intxn' = [intxn EXCEPT ![p] = FALSE]
    /\ work' = [work EXCEPT ![p] = NoDb]
    /\ conn' = [conn EXCEPT ![p] = "closed"]
    /\ ret' = [ret EXCEPT ![p] = err]
    /\ Goto(p, "exit")
    /\ UNCHANGED <<files, runs, args, loc, out, pre, issued, past>>

CounterOf(l) == IF l \in {"ecal_user_ins", "ecal_user_upd", "su_nc_ins", "su_nc_upd", "su_nc_sel"}
                THEN "user" ELSE "post"

\* for i in range(count): where the loop goes with i iterations done
UsersNext(i, count) == IF i < count THEN "su_nc_ins" ELSE "fetch_boards"
PostsNext(i, count) == IF i < count THEN "sp_nc_ins" ELSE "lk_loop"

\* --------------------------------------------------------------- actions
\* main, lines 144-151: parse the command line, test the path, connect.
main_start(p, A) ==
    /\ pc[p] = "idle"
    /\ \E a \in A :
        /\ args' = [args EXCEPT ![p] = a]
        /\ IF PathExists(a.db, files)
           THEN /\ conn' = [conn EXCEPT ![p] = "open"]
                /\ files' = files \cup {a.db}
                /\ Goto(p, "pragma")
                /\ UNCHANGED <<out, ret>>
           ELSE /\ out' = [out EXCEPT ![p].stderr = "Database not found"]
                /\ ret' = [ret EXCEPT ![p] = "1"]
                /\ Goto(p, "exit")
                /\ UNCHANGED <<conn, files>>
    /\ runs' = runs + 1
    /\ loc' = [loc EXCEPT ![p] = [NoLoc EXCEPT !.run_id = runs + 1]]
    /\ pre' = [pre EXCEPT ![p] = [db |-> db, files |-> files]]
    /\ UNCHANGED <<db, writer, intxn, work, issued, past>>

\* main, line 152: PRAGMA foreign_keys = ON, before the try block.
main_pragma(p) ==
    /\ pc[p] = "pragma"
    /\ Goto(p, "max_users")
    /\ UNCHANGED <<files, db, writer, runs, args, conn, intxn, work, loc, out, ret, pre, issued, past>>

\* The PRAGMA raises: no try block is entered, nothing closes the connection.
main_pragma_fails(p) ==
    /\ pc[p] = "pragma"
    /\ ret' = [ret EXCEPT ![p] = "sqlite3.Error"]
    /\ Goto(p, "exit")
    /\ UNCHANGED <<files, db, writer, runs, args, conn, intxn, work, loc, out, pre, issued, past>>

\* main, lines 156-157: the argument max_seq(conn, table) of each ensure call.
main_max_seq(p) ==
    /\ pc[p] \in {"max_users", "max_posts"}
    /\ loc' = [loc EXCEPT ![p].m = IF pc[p] = "max_users" THEN max_seq(View(p).users)
                                                            ELSE max_seq(View(p).posts)]
    /\ Goto(p, IF pc[p] = "max_users" THEN "ecal_user_ins" ELSE "ecal_post_ins")
    /\ UNCHANGED <<files, db, writer, runs, args, conn, intxn, work, out, ret, pre, issued, past>>

\* ensure_counter_at_least, lines 28-31.
ensure_insert(p) ==
    /\ pc[p] \in {"ecal_user_ins", "ecal_post_ins"}
    /\ ExecWrite(p, [View(p) EXCEPT
                       !.counters = InsertOrIgnoreCounter(@, CounterOf(pc[p]), loc[p].m)])
    /\ Goto(p, IF pc[p] = "ecal_user_ins" THEN "ecal_user_upd" ELSE "ecal_post_upd")
    /\ UNCHANGED <<files, db, runs, args, conn, loc, out, ret, pre, issued, past>>

\* ensure_counter_at_least, lines 32-35; after the second call main goes on to
\* seed_users (lines 159-160).
ensure_update(p) ==
    /\ pc[p] \in {"ecal_user_upd", "ecal_post_upd"}
    /\ ExecWrite(p, [View(p) EXCEPT !.counters = UpdateRaise(@, CounterOf(pc[p]), loc[p].m)])
    /\ Goto(p, IF pc[p] = "ecal_user_upd" THEN "max_posts" ELSE UsersNext(0, args[p].users))
    /\ loc' = [loc EXCEPT ![p].m = 0]
    /\ UNCHANGED <<files, db, runs, args, conn, out, ret, pre, issued, past>>

\* next_counter, line 39.
next_counter_insert(p) ==
    /\ pc[p] \in {"su_nc_ins", "sp_nc_ins"}
    /\ ExecWrite(p, [View(p) EXCEPT !.counters = InsertOrIgnoreCounter(@, CounterOf(pc[p]), 0)])
    /\ Goto(p, IF pc[p] = "su_nc_ins" THEN "su_nc_upd" ELSE "sp_nc_upd")
    /\ UNCHANGED <<files, db, runs, args, conn, loc, out, ret, pre, issued, past>>

\* next_counter, line 40.
next_counter_update(p) ==
    /\ pc[p] \in {"su_nc_upd", "sp_nc_upd"}
    /\ ExecWrite(p, [View(p) EXCEPT !.counters = UpdateIncrement(@, CounterOf(pc[p]))])
    /\ Goto(p, IF pc[p] = "su_nc_upd" THEN "su_nc_sel" ELSE "sp_nc_sel")
    /\ UNCHANGED <<files, db, runs, args, conn, loc, out, ret, pre, issued, past>>

\* next_counter, lines 41-42: the value read back is the caller's seq.
next_counter_select(p) ==
    /\ pc[p] \in {"su_nc_sel", "sp_nc_sel"}
    /\ LET v == SelectValue(View(p).counters, CounterOf(pc[p])) IN
        /\ loc' = [loc EXCEPT ![p].seq = v]
        /\ issued' = [issued EXCEPT ![p][CounterOf(pc[p])] = Append(@, v)]
    /\ Goto(p, IF pc[p] = "su_nc_sel" THEN "su_ins_user" ELSE "sp_choice")
    /\ UNCHANGED <<files, db, writer, runs, args, conn, intxn, work, out, ret, pre, past>>

\* seed_users, lines 62-69.
seed_users_insert_user(p) ==
    /\ pc[p] = "su_ins_user"
    /\ ExecWrite(p, [View(p) EXCEPT
                       !.users = @ \cup {[seq |-> loc[p].seq, id |-> UserId(loc[p].seq)]}])
    /\ Goto(p, "su_ins_acct")
    /\ UNCHANGED <<files, db, runs, args, conn, loc, out, ret, pre, issued, past>>

\* seed_users, lines 70-75, and the loop test (line 60); the run discriminator is
\* the run's ordinal (two runs in one wall-clock second collide: stmt_fails).
seed_users_insert_account(p) ==
    /\ pc[p] = "su_ins_acct"
    /\ ExecWrite(p, [View(p) EXCEPT
                       !.accounts = @ \cup {[account |-> <<loc[p].run_id, loc[p].i + 1>>,
                                             user_id |-> UserId(loc[p].seq)]}])
    /\ loc' = [loc EXCEPT ![p].user_ids = Append(@, UserId(loc[p].seq)),
                          ![p].seq = 0,
                          ![p].i = IF loc[p].i + 1 < args[p].users THEN loc[p].i + 1 ELSE 0]
    /\ Goto(p, UsersNext(loc[p].i + 1, args[p].users))
    /\ UNCHANGED <<files, db, runs, args, conn, out, ret, pre, issued, past>>

\* fetch_board_ids, lines 51-54 (never empty: the fallback trio), then the first
\* loop test of seed_posts (line 89) and, past the loop, lines 107-110.
fetch_board_ids(p) ==
    /\ pc[p] = "fetch_boards"
    /\ Goto(p, PostsNext(0, args[p].posts))
    /\ loc' = [loc EXCEPT ![p].like_user_count =
                              LikeUserCount(args[p].likes_per_post, loc[p].user_ids)]
    /\ UNCHANGED <<files, db, writer, runs, args, conn, intxn, work, out, ret, pre, issued, past>>

\* seed_posts, lines 92-98: random.choice(board_ids), random.choice(user_ids), the
\* random backdating.
seed_posts_choice(p, S) ==
    /\ pc[p] = "sp_choice"
    /\ loc[p].user_ids # <<>>
    /\ \E t \in S : loc' = [loc EXCEPT ![p].created_at = t]
    /\ Goto(p, "sp_ins_post")
    /\ UNCHANGED <<files, db, writer, runs, args, conn, intxn, work, out, ret, pre, issued, past>>

\* seed_posts, line 93: random.choice of an empty user_ids raises IndexError.
seed_posts_choice_fails(p) ==
    /\ pc[p] = "sp_choice"
    /\ loc[p].user_ids = <<>>
    /\ Raise(p, "IndexError")

\* seed_posts, lines 99-105, the loop test (line 89) and lines 107-110.
seed_posts_insert_post(p) ==
    /\ pc[p] = "sp_ins_post"
    /\ ExecWrite(p, [View(p) EXCEPT
                       !.posts = @ \cup {[seq |-> loc[p].seq, id |-> PostId(loc[p].seq),
                                          created_at |-> loc[p].created_at]}])
    /\ loc' = [loc EXCEPT ![p].posts = Append(@, <<PostId(loc[p].seq), loc[p].created_at>>),
                          ![p].seq = 0,
                          ![p].created_at = 0,
                          ![p].i = IF loc[p].i + 1 < args[p].posts THEN loc[p].i + 1 ELSE 0]
    /\ Goto(p, PostsNext(loc[p].i + 1, args[p].posts))
    /\ UNCHANGED <<files, db, runs, args, conn, out, ret, pre, issued, past>>

\* seed_posts, lines 111-114: the outer like loop; past it, return (line 120).
seed_posts_like_loop(p) ==
    /\ pc[p] = "lk_loop"
    /\ IF loc[p].idx < Len(loc[p].posts)
       THEN IF PostIsLiked(loc[p].idx, args[p].posts, args[p].liked_every,
                           loc[p].like_user_count)
            THEN /\ loc' = [loc EXCEPT ![p].liked_posts = @ + 1, ![p].k = 0]
                 /\ Goto(p, "lk_ins")
            ELSE /\ loc' = [loc EXCEPT ![p].idx = @ + 1]
                 /\ UNCHANGED pc
       ELSE /\ loc' = [loc EXCEPT ![p].idx = 0]
            /\ Goto(p, "commit")
    /\ UNCHANGED <<files, db, writer, runs, args, conn, intxn, work, out, ret, pre, issued, past>>

\* seed_posts, lines 115-119: one like row per user of user_ids[:like_user_count].
seed_posts_insert_vote(p) ==
    /\ pc[p] = "lk_ins"
    /\ ExecWrite(p, [View(p) EXCEPT
                       !.votes = @ \cup {VoteRow(loc[p].posts[loc[p].idx + 1],
                                                 loc[p].user_ids[loc[p].k + 1])}])
    /\ IF loc[p].k + 1 < loc[p].like_user_count
       THEN /\ loc' = [loc EXCEPT ![p].k = @ + 1]
            /\ UNCHANGED pc
       ELSE /\ loc' = [loc EXCEPT ![p].k = 0, ![p].idx = @ + 1]
            /\ Goto(p, "lk_loop")
    /\ UNCHANGED <<files, db, runs, args, conn, out, ret, pre, issued, past>>

\* main, line 155: the with block ends normally, the transaction commits.
main_commit(p) ==
    /\ pc[p] = "commit"
    /\ db' = View(p)
    /\ writer' = IF writer = p THEN 0 ELSE writer
    /\ intxn' = [intxn EXCEPT ![p] = FALSE]
    /\ work' = [work EXCEPT ![p] = NoDb]
    /\ Goto(p, "report")
    /\ UNCHANGED <<files, runs, args, conn, loc, out, ret, pre, issued, past>>

\* main, lines 171-187: the summary, the warning, finally: conn.close(), return 0.
main_report(p) ==
    /\ pc[p] = "report"
    /\ out' = [out EXCEPT
                 ![p].summary = <<Len(loc[p].user_ids), Len(loc[p].posts), loc[p].liked_posts>>,
                 ![p].warning = IF Warn(args[p].likes_per_post, loc[p].user_ids)
                                THEN <<Len(loc[p].user_ids)>> ELSE <<>>]
    /\ conn' = [conn EXCEPT ![p] = "closed"]
    /\ ret' = [ret EXCEPT ![p] = "0"]
    /\ Goto(p, "exit")
    /\ UNCHANGED <<files, db, writer, runs, args, intxn, work, loc, pre, issued, past>>

\* The statements main executes inside the try block.
TryStatements ==
    {"max_users", "ecal_user_ins", "ecal_user_upd", "max_posts", "ecal_post_ins",
     "ecal_post_upd", "su_nc_ins", "su_nc_upd", "su_nc_sel", "su_ins_user", "su_ins_acct",
     "fetch_boards", "sp_nc_ins", "sp_nc_upd", "sp_nc_sel", "sp_ins_post", "lk_ins", "commit"}

\* A statement inside the try block raises sqlite3.Error (a constraint violation,
\* "database is locked" after the busy timeout, an I/O error).
stmt_fails(p) ==
    /\ pc[p] \in TryStatements
    /\ Raise(p, "sqlite3.Error")

\* The script is run again (a new process, a new connection).
run_again(p) ==
    /\ pc[p] = "exit"
    /\ runs < MaxRuns
    /\ past' = past \cup UNION { { [name |-> n, value |-> issued[p][n][j],
                                      committed |-> ret[p] = "0"] :
                                     j \in 1..Len(issued[p][n]) } : n \in Names }
    /\ issued' = [issued EXCEPT ![p] = NoIssued]
    /\ pc' = [pc EXCEPT ![p] = "idle"]
    /\ args' = [args EXCEPT ![p] = NoArgs]
    /\ conn' = [conn EXCEPT ![p] = "none"]
    /\ loc' = [loc EXCEPT ![p] = NoLoc]
    /\ out' = [out EXCEPT ![p] = NoOut]
    /\ ret' = [ret EXCEPT ![p] = "none"]
    /\ UNCHANGED <<files, db, writer, runs, intxn, work, pre>>

Step(p, A, S) ==
    \/ main_start(p, A)
    \/ main_pragma(p)
    \/ main_pragma_fails(p)
    \/ main_max_seq(p)
    \/ ensure_insert(p)
    \/ ensure_update(p)
    \/ next_counter_insert(p)
    \/ next_counter_update(p)
    \/ next_counter_select(p)
    \/ seed_users_insert_user(p)
    \/ seed_users_insert_account(p)
    \/ fetch_board_ids(p)
    \/ seed_posts_choice(p, S)
    \/ seed_posts_choice_fails(p)
    \/ seed_posts_insert_post(p)
    \/ seed_posts_like_loop(p)
    \/ seed_posts_insert_vote(p)
    \/ main_commit(p)
    \/ main_report(p)
    \/ stmt_fails(p)

\* One run of the script, any command line.
Next == Step(1, ArgsAll, Stamps)
Spec == Init /\ [][Next]_vars

\* A sequence of sequential runs against the same database.
NextRuns == Step(1, ArgsFew, {1}) \/ run_again(1)
SpecRuns == Init /\ [][NextRuns]_vars

\* Two instances of the script running concurrently against the same database.
NextConc == \E p \in Procs : Step(p, ArgsFew, {1})
SpecConc == Init /\ [][NextConc]_vars

\* ------------------------------------------------------------ properties
Errors == {"sqlite3.Error", "IndexError"}
CounterValue(c, n) == IF n \in DOMAIN c THEN c[n] ELSE 0
Table(d, n) == IF n = "user" THEN d.users ELSE d.posts
\* The run of p was given a path that existed when it started.
Existing(p) == args[p].db \in pre[p].files
\* Rows of table n the run of p has added to the committed database.
Inserted(p, n) == Table(db, n) \ Table(pre[p].db, n)
\* max(pre-run counter value, pre-run maximum seq), 0 for an absent counter / empty table.
Floor(p, n) == Max(CounterValue(pre[p].db.counters, n), max_seq(Table(pre[p].db, n)))
IssuedSet(p, n) == {issued[p][n][j] : j \in 1..Len(issued[p][n])}
StrictlyIncreasing(s) == \A j \in 1..(Len(s) - 1) : s[j] < s[j + 1]

\* C1 as claimed: after every run against an existing database, committed or not
\* (here: every run that reached the try block, so that its connection was closed),
\* each counter equals max(pre-run value, pre-run maximum seq) plus the number of
\* rows the run inserted into its table.
C1_AsClaimed ==
    \A p \in Procs : pc[p] = "exit" /\ Existing(p) /\ conn[p] = "closed" =>
        \A n \in Names :
            CounterValue(db.counters, n) = Floor(p, n) + Cardinality(Inserted(p, n))

\* C1 amended: after a run that commits (main returns 0) each counter exists and
\* equals max(pre-run value, pre-run maximum seq, 0 for absent / empty) plus the
\* number of rows the run inserted into its table; after a run that aborts each
\* counter is what it was before the run (absent if it was absent, the floor
\* adjustment undone) and no row was inserted.
C1_CounterAfterRun ==
    \A p \in Procs : pc[p] = "exit" /\ Existing(p) =>
        IF ret[p] = "0"
        THEN \A n \in Names :
                /\ n \in DOMAIN db.counters
                /\ db.counters[n] = Floor(p, n) + Cardinality(Inserted(p, n))
        ELSE /\ db.counters = pre[p].db.counters
             /\ \A n \in Names : Inserted(p, n) = {}

\* C1 witness: a committed run that had to raise the user counter to the table
\* maximum and inserted users and posts.
C1_Witness ==
    \E p \in Procs :
        /\ pc[p] = "exit" /\ ret[p] = "0"
        /\ CounterValue(pre[p].db.counters, "user") < max_seq(pre[p].db.users)
        /\ Inserted(p, "user") # {} /\ Inserted(p, "post") # {}

PastValues(n, S) == {r.value : r \in {x \in past : x.name = n /\ x.committed \in S}}

C3_Atomic ==
    \A p \in Procs : pc[p] = "exit" /\ ret[p] \in Errors => db = pre[p].db

\* C3 witness: a statement failed after the floor adjustment, the users, a post and
\* their counter increments had been written, and the database is as before.
C3_Witness ==
    \E p \in Procs :
        /\ pc[p] = "exit" /\ ret[p] = "sqlite3.Error"
        /\ CounterValue(pre[p].db.counters, "user") < max_seq(pre[p].db.users)
        /\ loc[p].user_ids # <<>> /\ loc[p].posts # <<>>
        /\ Len(issued[p]["post"]) = 2
        /\ db = pre[p].db

\* C4: when the database path does not exist main opens no connection, writes
\* nothing (no file created, no table or counter touched), reports the error on
\* stderr and returns a nonzero status.
C4_MissingDatabase ==
    \A p \in Procs : pc[p] # "idle" /\ ~Existing(p) =>
        /\ pc[p] = "exit" /\ ret[p] = "1"
        /\ conn[p] = "none" /\ ~intxn[p]
        /\ files = pre[p].files /\ db = pre[p].db
        /\ out[p].stderr = "Database not found" /\ out[p].summary = <<>>

\* C4 witness: a run given a missing path has ended.
C4_Witness ==
    \E p \in Procs : pc[p] = "exit" /\ args[p].db = "missing.db" /\ ~Existing(p)

\* seed_posts has returned in the run of p.
Returned(p) == pc[p] \in {"commit", "report"} \/ (pc[p] = "exit" /\ ret[p] = "0")
\* The like rows of the post generated at 0-based index i.
LikeRows(p, i) == {v \in View(p).votes : v.post_id = loc[p].posts[i + 1][1]}
\* One like row for each of the first n user ids, value 1, the post's created_at.
PrefixRows(p, i, n) ==
    {[post_id |-> loc[p].posts[i + 1][1], user_id |-> loc[p].user_ids[j], value |-> 1,
      created_at |-> loc[p].posts[i + 1][2]] : j \in 1..n}
Capped(p) == Min(args[p].likes_per_post, Len(loc[p].user_ids))
Period(p) == Max(1, args[p].liked_every)
Indices(p) == 0..(Len(loc[p].posts) - 1)

\* C5 as claimed: the post at index i has like rows iff i is a multiple of
\* max(1, liked_every), and then exactly min(likes_per_post, len(user_ids)) of them.
C5_AsClaimed ==
    \A p \in Procs : Returned(p) =>
        \A i \in Indices(p) :
            /\ LikeRows(p, i) # {} <=> i % Period(p) = 0
            /\ i % Period(p) = 0 =>
                 /\ Cardinality(LikeRows(p, i)) = Capped(p)
                 /\ LikeRows(p, i) = PrefixRows(p, i, Capped(p))

\* C5 amended: when min(likes_per_post, len(user_ids)) >= 1, the post at 0-based
\* index i has like rows iff i is a multiple of max(1, liked_every), and then exactly
\* min(likes_per_post, len(user_ids)) of them, one for each entry of that prefix of
\* user_ids, each with value 1 and the post's created_at; when that minimum is
\* zero or negative no post has a like row.
C5_LikeRows ==
    \A p \in Procs : Returned(p) =>
        \A i \in Indices(p) :
            IF Capped(p) >= 1 /\ i % Period(p) = 0
            THEN /\ LikeRows(p, i) = PrefixRows(p, i, Capped(p))
                 /\ Cardinality(LikeRows(p, i)) = Capped(p)
            ELSE LikeRows(p, i) = {}

\* C5 witness: two posts, liked_every 2, one like per post out of two users, done.
C5_Witness ==
    \E p \in Procs :
        /\ pc[p] = "exit" /\ ret[p] = "0"
        /\ Len(loc[p].posts) = 2 /\ Len(loc[p].user_ids) = 2
        /\ args[p].liked_every = 2 /\ args[p].likes_per_post = 1
        /\ LikeRows(p, 0) # {} /\ LikeRows(p, 1) = {}

Multiples(p) == {i \in Indices(p) : i % Period(p) = 0}
Printed(p) == pc[p] = "exit" /\ ret[p] = "0"

\* C6 as claimed: the "posts with likes" count is the number of posts whose index
\* is a multiple of max(1, liked_every), whatever likes_per_post is.
C6_AsClaimed ==
    \A p \in Procs : Returned(p) =>
        /\ loc[p].liked_posts = Cardinality(Multiples(p))
        /\ Printed(p) => out[p].summary[3] = Cardinality(Multiples(p))

\* C6 amended: the "posts with likes" count returned by seed_posts and printed by
\* main is the number of posts whose index is a multiple of max(1, liked_every) when
\* min(likes_per_post, len(user_ids)) >= 1 and 0 otherwise; it always equals the
\* number of posts that have a like row; when likes_per_post exceeds the number of
\* generated users each liked post has one row per generated user, the warning is
\* printed with that cap, and the count is still the liked_every-based one.
C6_LikedCount ==
    \A p \in Procs : Returned(p) =>
        /\ loc[p].liked_posts = IF Capped(p) >= 1 THEN Cardinality(Multiples(p)) ELSE 0
        /\ loc[p].liked_posts = Cardinality({i \in Indices(p) : LikeRows(p, i) # {}})
        /\ Printed(p) =>
             /\ out[p].summary = <<Len(loc[p].user_ids), Len(loc[p].posts), loc[p].liked_posts>>
             /\ (out[p].warning # <<>>) <=> args[p].likes_per_post > Len(loc[p].user_ids)
             /\ args[p].likes_per_post > Len(loc[p].user_ids) =>
                  /\ out[p].warning = <<Len(loc[p].user_ids)>>
                  /\ \A i \in Indices(p) :
                       LikeRows(p, i) # {} =>
                         Cardinality(LikeRows(p, i)) = Len(loc[p].user_ids)
                  /\ Len(loc[p].user_ids) >= 1 =>
                       out[p].summary[3] = Cardinality(Multiples(p))

\* C6 witness: likes_per_post above the user count, capped likes, warning printed.
C6_Witness ==
    \E p \in Procs :
        /\ Printed(p)
        /\ args[p].likes_per_post > Len(loc[p].user_ids)
        /\ Len(loc[p].posts) = 2 /\ args[p].liked_every = 0
        /\ out[p].summary[3] = 2 /\ out[p].warning # <<>>

\* C7 as claimed: a run against an existing database adds exactly the requested
\* number of users and accounts and the requested number of posts (stated here for
\* the runs no database error interrupts and the counts that are not negative, user
\* count 0 with post count > 0 included).
C7_AsClaimed ==
    \A p \in Procs :
        /\ pc[p] = "exit" /\ Existing(p) /\ ret[p] # "sqlite3.Error"
        /\ args[p].users >= 0 /\ args[p].posts >= 0
        =>
        /\ Cardinality(db.users \ pre[p].db.users) = args[p].users
        /\ Cardinality(db.accounts \ pre[p].db.accounts) = args[p].users
        /\ Cardinality(db.posts \ pre[p].db.posts) = args[p].posts

\* The call ensure_counter_at_least(conn, "user", ...) of p has just returned.
EnsuredUser(p) == pc[p] = "max_posts"
\* The call ensure_counter_at_least(conn, "post", ...) of p has just returned.
EnsuredPost(p) ==
    /\ pc[p] \in {"su_nc_ins", "fetch_boards"}
    /\ issued[p]["user"] = <<>> /\ loc[p].user_ids = <<>>
EnsureResult(old, n, m) == IF n \in DOMAIN old THEN Max(old[n], m) ELSE m

\* C8: ensure_counter_at_least(name, m) leaves the counter at m if it was absent and
\* at max(old, m) otherwise, never lowers it, changes no other counter, and a second
\* call with the same arguments changes nothing.
C8_EnsureCounter ==
    \A p \in Procs :
        LET old == db.counters
            new == work[p].counters
            mu  == max_seq(db.users)
            mp  == max_seq(db.posts)
        IN  /\ EnsuredUser(p) =>
                /\ "user" \in DOMAIN new
                /\ new["user"] = EnsureResult(old, "user", mu)
                /\ new["user"] >= CounterValue(old, "user")
                /\ DOMAIN new = DOMAIN old \cup {"user"}
                /\ "post" \in DOMAIN old => new["post"] = old["post"]
                /\ ensure_counter_at_least(new, "user", mu) = new
            /\ EnsuredPost(p) =>
                /\ DOMAIN new = Names
                /\ new["post"] = EnsureResult(old, "post", mp)
                /\ new["post"] >= CounterValue(old, "post")
                /\ new["user"] = EnsureResult(old, "user", mu)
                /\ ensure_counter_at_least(new, "post", mp) = new

\* C8 witness: the call found the user counter above the table maximum and kept it.
C8_Witness ==
    \E p \in Procs :
        /\ EnsuredUser(p)
        /\ "user" \in DOMAIN db.counters
        /\ db.counters["user"] > max_seq(db.users)
        /\ work[p].counters["user"] = db.counters["user"]

\* C9 as claimed: on every exit path of main on which the connection was acquired,
\* the connection is closed.
C9_AsClaimed ==
    \A p \in Procs : pc[p] = "exit" /\ conn[p] # "none" => conn[p] = "closed"

CounterWrites ==
    {"ecal_user_ins", "ecal_user_upd", "ecal_post_ins", "ecal_post_upd",
     "su_nc_ins", "su_nc_upd", "sp_nc_ins", "sp_nc_upd"}
ReadBack == {"su_nc_sel", "sp_nc_sel"}

====
